---- MODULE Spec2Model ----
(***************************************************************************)
(* Student Grading System (src/main.py): the SQLite store (students,       *)
(* subjects, marks, attendance), the repository functions over it, the     *)
(* grading function and the Tkinter handlers that drive them.              *)
(*                                                                         *)
(* Representation.  A text is a sequence of ASCII codes (<<83, 49>> is     *)
(* "S1"); a percentage is an integer number of hundredths (8500 is 85.0);  *)
(* a GPA is an integer number of tenths (37 is 3.7); a mark value is a     *)
(* whole number.  A database is a record of the four tables and of         *)
(* sqlite_sequence (the AUTOINCREMENT counters).                           *)
(***************************************************************************)
EXTENDS Integers, Sequences, FiniteSets, TLC

VARIABLES
    db,                       \* the committed content of students_dark.db
    view,                     \* the open connection's uncommitted view (NoConn: none)
    pc,                       \* [at, id]: the position inside a delete run statement by
                              \* statement, and the row it deletes
    subjects,                 \* self.subjects: the cached <<id, name>> list
    selected_student_db_id,   \* self.selected_student_db_id
    tree,                     \* self.tree: the rows on display
    last,                     \* the message box on screen: the handler that shows it and
                              \* its message (NoDialog: none)
    grade_in,                 \* argument of a direct call of the grading function
    grade_out                 \* its result

vars == <<db, view, pc, subjects, selected_student_db_id, tree, last,
          grade_in, grade_out>>

----------------------------------------------------------------------------
(* Bounds of the model *)

MaxStudentRows == 2      \* student rows ever inserted
MaxSubjectRows == 2      \* subject rows ever inserted
MaxMarkRows == 2         \* mark rows ever inserted
MaxAttendanceRows == 1   \* attendance rows ever inserted
MaxTimestamp == 1        \* readings of the clock, in seconds
MaxMarksLen == 2         \* length of a marks list handed to the grading function
MaxAttendanceCalls == 4  \* direct calls of add_attendance_to_db

----------------------------------------------------------------------------
(* Texts *)

None == 0
SPACE == 32

T_A == <<65>>
T_sp_A == <<32, 65>>
T_S1 == <<83, 49>>
T_a == <<97>>
T_B == <<66>>
T_sp == <<32>>
T_M == <<77>>
T_P == <<80>>
T_abc == <<97, 98, 99>>
T_nan == <<110, 97, 110>>
T_minus1 == <<45, 49>>
T_0 == <<48>>
T_sp_100 == <<32, 49, 48, 48>>
T_101 == <<49, 48, 49>>
T_Ab == <<65, 98>>
T_b == <<98>>
T_underscore == <<95>>
T_percent == <<37>>

\* what the user can type in the Student ID, Name and Class fields
CodeInputs == {<<>>, T_sp_A}
\* what the user leaves in the Student ID field for Update Selected
UpdateCodeInputs == {T_sp_A, T_S1}
NameInputs == {T_sp, T_a}
KlassInputs == {<<>>}
\* the subject name field, and the answer to the rename dialog
SubjectInputs == {<<>>, T_M, T_P}
\* a Marks entry
MarkInputs == {<<>>, T_abc, T_nan, T_minus1, T_0, T_sp_100, T_101}
\* the search box and the grade filter
grade_options == {"All", "A+", "A", "B", "C", "D", "F"}
ViewInputs == {<<<<>>, "All">>}
Timestamps == 1..MaxTimestamp

RECURSIVE lstrip(_)
lstrip(s) == IF s # <<>> /\ Head(s) = SPACE THEN lstrip(Tail(s)) ELSE s

RECURSIVE rstrip(_)
rstrip(s) ==
    IF s # <<>> /\ s[Len(s)] = SPACE THEN rstrip(SubSeq(s, 1, Len(s) - 1)) ELSE s

\* str.strip()
strip(s) == rstrip(lstrip(s))

\* str(n) of a non-negative int
RECURSIVE str_int(_)
str_int(n) == IF n < 10 THEN <<48 + n>> ELSE str_int(n \div 10) \o <<48 + (n % 10)>>

\* f"S{int(datetime.datetime.now().timestamp())}"
auto_code(t) == <<83>> \o str_int(t)

IsDigit(c) == c >= 48 /\ c <= 57

RECURSIVE digits_value(_)
digits_value(s) ==
    IF s = <<>> THEN 0 ELSE 10 * digits_value(SubSeq(s, 1, Len(s) - 1)) + (s[Len(s)] - 48)

\* float(raw) on the texts of this model: surrounding blanks are skipped, an
\* optional sign and decimal digits make a number, "nan" makes the NaN, and
\* anything else raises ValueError.
float(raw) ==
    LET s == strip(raw)
        neg == s # <<>> /\ Head(s) = 45
        body == IF s # <<>> /\ Head(s) \in {43, 45} THEN Tail(s) ELSE s
    IN  IF body # <<>> /\ \A i \in 1..Len(body) : IsDigit(body[i])
        THEN [kind |-> "num", val |-> IF neg THEN 0 - digits_value(body) ELSE digits_value(body)]
        ELSE IF body = T_nan THEN [kind |-> "nan", val |-> 0]
        ELSE [kind |-> "ValueError", val |-> 0]

\* memcmp order of two texts (the BINARY collation of ORDER BY name)
RECURSIVE TextLess(_, _)
TextLess(a, b) ==
    IF b = <<>> THEN FALSE
    ELSE IF a = <<>> THEN TRUE
    ELSE IF Head(a) # Head(b) THEN Head(a) < Head(b)
    ELSE TextLess(Tail(a), Tail(b))

lower(c) == IF c >= 65 /\ c <= 90 THEN c + 32 ELSE c

\* SQLite's LIKE: % matches any run, _ any one character, letters of ASCII
\* match without regard to case
RECURSIVE like(_, _)
like(p, s) ==
    IF p = <<>> THEN s = <<>>
    ELSE IF Head(p) = 37
         THEN like(Tail(p), s) \/ (s # <<>> /\ like(p, Tail(s)))
    ELSE IF s = <<>> THEN FALSE
    ELSE (Head(p) = 95 \/ lower(Head(p)) = lower(Head(s))) /\ like(Tail(p), Tail(s))

\* ORDER BY name of a set of rows; rows of equal name keep rowid order
RECURSIVE order_by_name(_)
order_by_name(rows) ==
    IF rows = {} THEN <<>>
    ELSE LET r == CHOOSE x \in rows : \A y \in rows \ {x} :
                      TextLess(x.name, y.name) \/ (x.name = y.name /\ x.id < y.id)
         IN  <<r>> \o order_by_name(rows \ {r})

----------------------------------------------------------------------------
(* The database file and a connection to it *)

\* init_db on a fresh file
EmptyDb ==
    [students |-> {}, subjects |-> {}, marks |-> {}, attendance |-> {},
     seq |-> [students |-> 0, subjects |-> 0, marks |-> 0, attendance |-> 0]]

NoConn == [closed |-> TRUE]

\* get_conn(): a connection sees the committed file
get_conn(D) == [disk |-> D, view |-> D]

\* the sqlite3 module opens a transaction before the first INSERT, UPDATE or
\* DELETE of a connection: a statement changes the connection's view only
execute_autocommit(c, V) == [disk |-> V, view |-> V]
execute(c, V) == [c EXCEPT !.view = V]

\* conn.commit()
commit(c) == [disk |-> c.view, view |-> c.view]

\* the process dies: the file keeps what was committed
crash_recover(c) == c.disk

----------------------------------------------------------------------------
(* SQL statements, as functions of the view they run on *)

\* INSERT INTO students (student_id, name, klass)
sql_insert_student(V, student_id, name, klass) ==
    LET id == V.seq.students + 1
    IN  [V EXCEPT !.students = @ \cup {[id |-> id, student_id |-> student_id,
                                        name |-> name, klass |-> klass]},
                  !.seq.students = id]

\* the UNIQUE constraint of students.student_id, for the row `except`
student_id_taken(V, student_id, except) ==
    \E s \in V.students : s.id # except /\ s.student_id = student_id

\* UPDATE students SET student_id=?, name=?, klass=? WHERE id=?
sql_update_student(V, db_id, student_id, name, klass) ==
    [V EXCEPT !.students =
        {IF s.id = db_id
         THEN [id |-> s.id, student_id |-> student_id, name |-> name, klass |-> klass]
         ELSE s : s \in @}]

\* DELETE FROM students WHERE id=?
sql_delete_student(V, db_id) ==
    [V EXCEPT !.students = {s \in @ : s.id # db_id}]

\* DELETE FROM marks WHERE student_db_id=?
sql_delete_marks_of_student(V, db_id) ==
    [V EXCEPT !.marks = {m \in @ : m.student_db_id # db_id}]

\* DELETE FROM attendance WHERE student_db_id=?
sql_delete_attendance_of_student(V, db_id) ==
    [V EXCEPT !.attendance = {a \in @ : a.student_db_id # db_id}]

\* the UNIQUE constraint of subjects.name, for the row `except`
subject_name_taken(V, name, except) ==
    \E s \in V.subjects : s.id # except /\ s.name = name

\* INSERT INTO subjects (name), with no UNIQUE constraint to ignore
sql_insert_subject_always(V, name) ==
    LET id == V.seq.subjects + 1
    IN  [V EXCEPT !.subjects = @ \cup {[id |-> id, name |-> name]},
                  !.seq.subjects = id]
\* INSERT OR IGNORE INTO subjects (name)
sql_insert_or_ignore_subject(V, name) ==
    IF subject_name_taken(V, name, None) THEN V
    ELSE LET id == V.seq.subjects + 1
         IN  [V EXCEPT !.subjects = @ \cup {[id |-> id, name |-> name]},
                       !.seq.subjects = id]

\* UPDATE subjects SET name=? WHERE id=?
sql_update_subject(V, subj_id, name) ==
    [V EXCEPT !.subjects =
        {IF s.id = subj_id THEN [id |-> s.id, name |-> name] ELSE s : s \in @}]

\* DELETE FROM subjects WHERE id=?
sql_delete_subject(V, subj_id) ==
    [V EXCEPT !.subjects = {s \in @ : s.id # subj_id}]

\* DELETE FROM marks WHERE subject_db_id=?
sql_delete_marks_of_subject(V, subj_id) ==
    [V EXCEPT !.marks = {m \in @ : m.subject_db_id # subj_id}]

\* SELECT id FROM marks WHERE student_db_id=? AND subject_db_id=?
sql_select_mark_ids(V, student_db_id, subject_db_id) ==
    {m.id : m \in {x \in V.marks : x.student_db_id = student_db_id
                                   /\ x.subject_db_id = subject_db_id}}

\* UPDATE marks SET marks=? WHERE id=?
sql_update_mark(V, id, marks) ==
    [V EXCEPT !.marks =
        {IF m.id = id THEN [m EXCEPT !.marks = marks] ELSE m : m \in @}]

\* INSERT INTO marks (student_db_id, subject_db_id, marks)
sql_insert_mark(V, student_db_id, subject_db_id, marks) ==
    LET id == V.seq.marks + 1
    IN  [V EXCEPT !.marks = @ \cup {[id |-> id, student_db_id |-> student_db_id,
                                     subject_db_id |-> subject_db_id, marks |-> marks]},
                  !.seq.marks = id]

\* INSERT INTO attendance (student_db_id, date, present)
sql_insert_attendance(V, student_db_id, date, present) ==
    LET id == V.seq.attendance + 1
    IN  [V EXCEPT !.attendance = @ \cup {[id |-> id, student_db_id |-> student_db_id,
                                          date |-> date, present |-> present]},
                  !.seq.attendance = id]

----------------------------------------------------------------------------
(* Repository functions: each opens a connection, runs its statements and   *)
(* commits.  A function that can raise returns [raised, db]; the others     *)
(* return the database.                                                     *)

add_student_to_db_unchecked(D, student_id, name, klass) ==
    LET c == get_conn(D)
    IN  [raised |-> "", db |-> commit(execute(c, sql_insert_student(c.view, student_id, name, klass))).disk]
add_student_to_db(D, student_id, name, klass) ==
    LET c == get_conn(D)
    IN  IF student_id_taken(c.view, student_id, None)
        THEN [raised |-> "IntegrityError", db |-> D]
        ELSE [raised |-> "",
              db |-> commit(execute(c, sql_insert_student(c.view, student_id, name, klass))).disk]

update_student_in_db(D, db_id, student_id, name, klass) ==
    LET c == get_conn(D)
    IN  IF (\E s \in c.view.students : s.id = db_id)
           /\ student_id_taken(c.view, student_id, db_id)
        THEN [raised |-> "IntegrityError", db |-> D]
        ELSE [raised |-> "",
              db |-> commit(execute(c, sql_update_student(c.view, db_id, student_id, name, klass))).disk]

delete_student_keep_marks(D, db_id) ==
    LET c0 == get_conn(D)
        c1 == execute(c0, sql_delete_student(c0.view, db_id))
        c3 == execute(c1, sql_delete_attendance_of_student(c1.view, db_id))
    IN  commit(c3).disk
delete_student_from_db(D, db_id) ==
    LET c0 == get_conn(D)
        c1 == execute(c0, sql_delete_student(c0.view, db_id))
        c2 == execute(c1, sql_delete_marks_of_student(c1.view, db_id))
        c3 == execute(c2, sql_delete_attendance_of_student(c2.view, db_id))
    IN  commit(c3).disk

list_students_from_db(D) == order_by_name(D.students)

find_students_by_name(D, name) ==
    order_by_name({s \in D.students : like(<<37>> \o name \o <<37>>, s.name)})

add_subject_to_db(D, name) ==
    LET c == get_conn(D)
    IN  commit(execute(c, sql_insert_or_ignore_subject(c.view, name))).disk

list_subjects_from_db(D) ==
    LET rows == order_by_name(D.subjects)
    IN  [i \in 1..Len(rows) |-> <<rows[i].id, rows[i].name>>]

Min(S) == CHOOSE x \in S : \A y \in S : x <= y

set_mark_always_insert(D, student_db_id, subject_db_id, marks) ==
    LET c == get_conn(D)
    IN  commit(execute(c, sql_insert_mark(c.view, student_db_id, subject_db_id, marks))).disk
set_mark_in_db(D, student_db_id, subject_db_id, marks) ==
    LET c == get_conn(D)
        ids == sql_select_mark_ids(c.view, student_db_id, subject_db_id)
    IN  IF ids # {}
        THEN commit(execute(c, sql_update_mark(c.view, Min(ids), marks))).disk
        ELSE commit(execute(c, sql_insert_mark(c.view, student_db_id, subject_db_id, marks))).disk

Num(v) == [kind |-> "num", val |-> v, text |-> <<>>]
Txt(s) == [kind |-> "text", val |-> 0, text |-> s]

\* SELECT subjects.name, marks.marks FROM marks JOIN subjects ... ORDER BY subjects.name
get_marks_for_student_from_db(D, student_db_id) ==
    LET joined == {[id |-> m.id, name |-> s.name, marks |-> m.marks] :
                      <<m, s>> \in {p \in D.marks \X D.subjects :
                                       p[1].subject_db_id = p[2].id
                                       /\ p[1].student_db_id = student_db_id}}
        rows == order_by_name(joined)
    IN  [i \in 1..Len(rows) |-> <<rows[i].name, Num(rows[i].marks)>>]

delete_marks_for_subject(D, subject_db_id) ==
    LET c == get_conn(D)
    IN  commit(execute(c, sql_delete_marks_of_subject(c.view, subject_db_id))).disk

add_attendance_to_db(D, student_db_id, date_str, present) ==
    LET c == get_conn(D)
    IN  commit(execute(c, sql_insert_attendance(c.view, student_db_id, date_str,
                                                IF present THEN 1 ELSE 0))).disk

\* round(n / d * 100, 2) in hundredths, for n >= 0 and d > 0; a tie goes to
\* the even neighbour
round2(n, d) ==
    LET q == (n * 10000) \div d
        r == (n * 10000) % d
    IN  IF 2 * r < d THEN q
        ELSE IF 2 * r > d THEN q + 1
        ELSE IF q % 2 = 0 THEN q ELSE q + 1

RECURSIVE SumOf(_, _)
SumOf(S, f) ==
    IF S = {} THEN 0 ELSE LET x == CHOOSE y \in S : TRUE IN f[x] + SumOf(S \ {x}, f)

\* COUNT(DISTINCT date) in the place of COUNT(*)
get_attendance_percent_distinct_dates(D, student_db_id) ==
    LET rows == {a \in D.attendance : a.student_db_id = student_db_id}
        total == Cardinality({a.date : a \in rows})
        present == SumOf(rows, [a \in rows |-> a.present])
    IN  IF total = 0 THEN 0 ELSE round2(present, total)
get_attendance_percent_from_db(D, student_db_id) ==
    LET rows == {a \in D.attendance : a.student_db_id = student_db_id}
        total == Cardinality(rows)
        present == SumOf(rows, [a \in rows |-> a.present])
    IN  IF total = 0 THEN 0 ELSE round2(present, total)

----------------------------------------------------------------------------
(* Grading *)

\* float(m) inside try/except: the value added to total, and whether it is NaN
mark_term(m) ==
    IF m.kind = "num" THEN [add |-> m.val, nan |-> FALSE]
    ELSE LET f == float(m.text)
         IN  IF f.kind = "num" THEN [add |-> f.val, nan |-> FALSE]
             ELSE IF f.kind = "nan" THEN [add |-> 0, nan |-> TRUE]
             ELSE [add |-> 0, nan |-> FALSE]

RECURSIVE total_of(_)
total_of(marks_list) ==
    IF marks_list = <<>> THEN 0
    ELSE mark_term(Head(marks_list)[2]).add + total_of(Tail(marks_list))

grade_row(total, max_total, percentage, gpa, grade, nan) ==
    [total |-> total, max_total |-> max_total, percentage |-> percentage,
     gpa |-> gpa, grade |-> grade, nan |-> nan]

\* the threshold chain with the 80 and 90 rows swapped
grade_of_swapped(total, max_total, percentage) ==
    IF percentage >= 8000 THEN grade_row(total, max_total, percentage, 37, "A", FALSE)
    ELSE IF percentage >= 9000 THEN grade_row(total, max_total, percentage, 40, "A+", FALSE)
    ELSE IF percentage >= 7000 THEN grade_row(total, max_total, percentage, 30, "B", FALSE)
    ELSE IF percentage >= 6000 THEN grade_row(total, max_total, percentage, 20, "C", FALSE)
    ELSE IF percentage >= 5000 THEN grade_row(total, max_total, percentage, 10, "D", FALSE)
    ELSE grade_row(total, max_total, percentage, 0, "F", FALSE)
\* lines 242-253: the threshold chain
grade_of(total, max_total, percentage) ==
    IF percentage >= 9000 THEN grade_row(total, max_total, percentage, 40, "A+", FALSE)
    ELSE IF percentage >= 8000 THEN grade_row(total, max_total, percentage, 37, "A", FALSE)
    ELSE IF percentage >= 7000 THEN grade_row(total, max_total, percentage, 30, "B", FALSE)
    ELSE IF percentage >= 6000 THEN grade_row(total, max_total, percentage, 20, "C", FALSE)
    ELSE IF percentage >= 5000 THEN grade_row(total, max_total, percentage, 10, "D", FALSE)
    ELSE grade_row(total, max_total, percentage, 0, "F", FALSE)

\* max_total counted over the marks that parse only
calculate_skipping_unparseable(marks_list) ==
    LET parsed == SelectSeq(marks_list,
                            LAMBDA p : p[2].kind = "num" \/ float(p[2].text).kind # "ValueError")
        max_total == 100 * Len(parsed)
        total == total_of(marks_list)
    IN  IF marks_list = <<>> THEN grade_row(0, 0, 0, 0, "N/A", FALSE)
        ELSE grade_of(total, max_total,
                      IF max_total > 0 THEN round2(total, max_total) ELSE 0)
calculate_total_percentage_gpa_grade(marks_list) ==
    IF marks_list = <<>> THEN grade_row(0, 0, 0, 0, "N/A", FALSE)
    ELSE LET max_total == 100 * Len(marks_list)
             total == total_of(marks_list)
             nan == \E i \in 1..Len(marks_list) : mark_term(marks_list[i][2]).nan
         IN  IF nan
             THEN \* every comparison with NaN is false: the chain falls through
                  grade_row(0, max_total, 0, 0, "F", TRUE)
             ELSE grade_of(total, max_total,
                           IF max_total > 0 THEN round2(total, max_total) ELSE 0)

----------------------------------------------------------------------------
(* Handlers of StudentGradingApp.  The entry fields (Student ID, Name,      *)
(* Class, subject name, Marks entries, search box, grade filter), the       *)
(* answers to dialogs and the clock are inputs of the handler that reads    *)
(* them: the user can retype a field before any click.  So are the entry   *)
(* picked in the subject list and the row picked in the table (`index`):    *)
(* the click on a row of the table runs on_student_select, and from then    *)
(* until the table is rebuilt only Clear Form changes                       *)
(* selected_student_db_id, which is what Picked states.                     *)
(* A handler that shows a message box leaves it in `last`: the box is       *)
(* modal, so nothing else runs between it and the rest of the handler,      *)
(* which the step includes, and the next click waits for its OK (mainloop). *)

Dates == {[year |-> 2026, month |-> 11, day |-> 5]}

pad(n, w) ==
    LET t == str_int(n)
    IN  [i \in 1..(w - Len(t)) |-> 48] \o t

\* datetime.date.isoformat()
isoformat(d) == pad(d.year, 4) \o <<45>> \o pad(d.month, 2) \o <<45>> \o pad(d.day, 2)

\* a message box: the handler, the message, and for Save Marks the
\* set_mark_in_db calls made before it came up
Log(op, msg) == [op |-> op, msg |-> msg, calls |-> <<>>]
NoDialog == Log("", "")

\* one row of the table, lines 605-615
tree_row(D, s) ==
    LET g == calculate_total_percentage_gpa_grade(get_marks_for_student_from_db(D, s.id))
    IN  [db_id |-> s.id, student_id |-> s.student_id, name |-> s.name, klass |-> s.klass,
         total |-> g.total, percentage |-> g.percentage, gpa |-> g.gpa, grade |-> g.grade,
         attendance |-> get_attendance_percent_from_db(D, s.id)]

\* refresh_student_list: the rows it leaves in the tree
refresh_student_list(D, search, fg) ==
    LET query == strip(search)
        students == IF query # <<>> THEN find_students_by_name(D, query)
                    ELSE list_students_from_db(D)
        rows == [i \in 1..Len(students) |-> tree_row(D, students[i])]
        shown(r) == ~(fg # "All" /\ r.grade # fg)
    IN  SelectSeq(rows, shown)

\* lines 522-530 of edit_subject
rename_subject_unchecked(D, subj_id, new_name) ==
    LET c == get_conn(D)
    IN  [raised |-> "", db |-> commit(execute(c, sql_update_subject(c.view, subj_id, new_name))).disk]
rename_subject(D, subj_id, new_name) ==
    LET c == get_conn(D)
    IN  IF (\E s \in c.view.subjects : s.id = subj_id)
           /\ subject_name_taken(c.view, new_name, subj_id)
        THEN [raised |-> "IntegrityError", db |-> D]
        ELSE [raised |-> "",
              db |-> commit(execute(c, sql_update_subject(c.view, subj_id, new_name))).disk]

\* lines 548-553 of delete_subject
remove_subject(D, subj_id) ==
    LET c0 == get_conn(D)
        c1 == execute(c0, sql_delete_subject(c0.view, subj_id))
        c2 == execute(c1, sql_delete_marks_of_subject(c1.view, subj_id))
    IN  commit(c2).disk

\* line 734 without its upper bound
in_range_no_upper(f) == f.kind = "num" /\ 0 <= f.val
\* line 734: 0 <= val <= 100, false of the NaN
in_range(f) == f.kind = "num" /\ 0 <= f.val /\ f.val <= 100

\* the loop of save_marks_for_selected, lines 722-738: the database it
\* leaves, the dialog it ends with and the set_mark_in_db calls it made
\* the loop with delete_marks_for_subject run for a blank entry
RECURSIVE save_marks_loop_clearing(_, _, _, _)
save_marks_loop_clearing(D, student_db_id, subject_list, entries) ==
    IF subject_list = <<>>
    THEN [db |-> D, msg |-> "Marks updated.", calls |-> <<>>]
    ELSE LET subj_id == Head(subject_list)[1]
             raw == strip(entries[subj_id])
             val == float(raw)
         IN  IF raw = <<>>
             THEN save_marks_loop_clearing(delete_marks_for_subject(D, subj_id),
                                           student_db_id, Tail(subject_list), entries)
             ELSE IF val.kind = "ValueError"
             THEN [db |-> D, msg |-> "Invalid marks", calls |-> <<>>]
             ELSE IF ~in_range(val)
             THEN [db |-> D, msg |-> "Marks must be 0-100", calls |-> <<>>]
             ELSE LET rest == save_marks_loop_clearing(
                                  set_mark_in_db(D, student_db_id, subj_id, val.val),
                                  student_db_id, Tail(subject_list), entries)
                  IN  [rest EXCEPT !.calls = <<<<subj_id, val.val>>>> \o @]
RECURSIVE save_marks_loop(_, _, _, _)
save_marks_loop(D, student_db_id, subject_list, entries) ==
    IF subject_list = <<>>
    THEN [db |-> D, msg |-> "Marks updated.", calls |-> <<>>]
    ELSE LET subj_id == Head(subject_list)[1]
             raw == strip(entries[subj_id])
             val == float(raw)
         IN  IF raw = <<>>
             THEN save_marks_loop(D, student_db_id, Tail(subject_list), entries)
             ELSE IF val.kind = "ValueError"
             THEN [db |-> D, msg |-> "Invalid marks", calls |-> <<>>]
             ELSE IF ~in_range(val)
             THEN [db |-> D, msg |-> "Marks must be 0-100", calls |-> <<>>]
             ELSE LET rest == save_marks_loop(
                                  set_mark_in_db(D, student_db_id, subj_id, val.val),
                                  student_db_id, Tail(subject_list), entries)
                  IN  [rest EXCEPT !.calls = <<<<subj_id, val.val>>>> \o @]

AtIdle == [at |-> "idle", id |-> 0]

\* the event loop dispatches a click: no handler is running, and no message
\* box, which is modal, is waiting for its OK
Idle == pc = AtIdle /\ last = NoDialog

\* a delete is between its first statement and its commit
InDelete == pc # AtIdle

UNCHANGED_grade == UNCHANGED <<grade_in, grade_out>>
UNCHANGED_conn == UNCHANGED <<view, pc>>

\* refresh_subjects, lines 563-588
RefreshSubjects(D) == subjects' = list_subjects_from_db(D)

\* refresh_student_list, lines 594-615
RefreshStudentList(D, search, fg) == tree' = refresh_student_list(D, search, fg)

\* row `index` of the table is self.tree.selection()[0]
Picked(index) ==
    /\ index \in 1..Len(tree)
    /\ selected_student_db_id \in {None, tree[index].db_id}

\* clear_form, lines 856-864
clear_form_keep_selected == selected_student_db_id' = selected_student_db_id
clear_form == selected_student_db_id' = None

add_subject(subject_name, search, fg) ==
    /\ Idle
    /\ LET name == strip(subject_name)
           D == add_subject_to_db(db, name)
       IN  /\ name # <<>>
           /\ D.seq.subjects <= MaxSubjectRows
           /\ db' = D
           /\ RefreshSubjects(D)
           /\ RefreshStudentList(D, search, fg)
           /\ last' = Log("add_subject", "Added")
    /\ UNCHANGED selected_student_db_id
    /\ UNCHANGED_conn /\ UNCHANGED_grade

edit_subject(index, new_name, search, fg) ==
    /\ Idle
    /\ index \in 1..Len(subjects)
    /\ new_name # <<>>
    /\ LET subj_id == subjects[index][1]
           r == rename_subject(db, subj_id, new_name)
       IN  IF r.raised = "IntegrityError"
           THEN /\ last' = Log("edit_subject", "Subject name already exists.")
                /\ db' = r.db
                /\ UNCHANGED <<subjects, tree>>
           ELSE /\ db' = r.db
                /\ RefreshSubjects(r.db)
                /\ RefreshStudentList(r.db, search, fg)
                /\ last' = Log("edit_subject", "Updated")
    /\ UNCHANGED selected_student_db_id
    /\ UNCHANGED_conn /\ UNCHANGED_grade

delete_subject(index, search, fg) ==
    /\ Idle
    /\ index \in 1..Len(subjects)
    /\ LET subj_id == subjects[index][1]
           D == remove_subject(db, subj_id)
       IN  /\ db' = D
           /\ RefreshSubjects(D)
           /\ RefreshStudentList(D, search, fg)
           /\ last' = Log("delete_subject", "Deleted")
    /\ UNCHANGED selected_student_db_id
    /\ UNCHANGED_conn /\ UNCHANGED_grade

\* the Search and Apply Filter buttons, and clear_search with "" and "All"
search_students(search, fg) ==
    /\ Idle
    /\ RefreshStudentList(db, search, fg)
    /\ last' = NoDialog
    /\ UNCHANGED <<db, subjects, selected_student_db_id>>
    /\ UNCHANGED_conn /\ UNCHANGED_grade

\* a click on row i of the table, and on_student_select, lines 621-643
on_student_select(i) ==
    /\ Idle
    /\ i \in 1..Len(tree)
    /\ selected_student_db_id' = tree[i].db_id
    /\ last' = NoDialog
    /\ UNCHANGED <<db, subjects, tree>>
    /\ UNCHANGED_conn /\ UNCHANGED_grade

\* the Clear Form button
clear_form_button ==
    /\ Idle
    /\ clear_form
    /\ last' = NoDialog
    /\ UNCHANGED <<db, subjects, tree>>
    /\ UNCHANGED_conn /\ UNCHANGED_grade

add_student(sid_var, name_var, class_var, now, search, fg) ==
    /\ Idle
    /\ LET sid0 == strip(sid_var)
           name == strip(name_var)
           klass == strip(class_var)
           sid == IF sid0 = <<>> THEN auto_code(now) ELSE sid0
           r == add_student_to_db(db, sid, name, klass)
       IN  IF name = <<>>
           THEN /\ last' = Log("add_student", "Name is required.")
                /\ UNCHANGED <<db, tree, selected_student_db_id>>
           ELSE IF r.raised = "IntegrityError"
           THEN /\ last' = Log("add_student", "Student ID already exists.")
                /\ db' = r.db
                /\ UNCHANGED <<tree, selected_student_db_id>>
           ELSE /\ r.db.seq.students <= MaxStudentRows
                /\ db' = r.db
                /\ RefreshStudentList(r.db, search, fg)
                /\ clear_form
                /\ last' = Log("add_student", "Added")
    /\ UNCHANGED subjects
    /\ UNCHANGED_conn /\ UNCHANGED_grade

update_selected_student(index, sid_var, name_var, class_var, search, fg) ==
    /\ Idle
    /\ Picked(index)
    /\ LET db_id == tree[index].db_id
           sid == strip(sid_var)
           name == strip(name_var)
           klass == strip(class_var)
           r == update_student_in_db(db, db_id, sid, name, klass)
       IN  IF name = <<>>
           THEN /\ last' = Log("update_selected_student", "Name cannot be empty.")
                /\ UNCHANGED <<db, tree, selected_student_db_id>>
           ELSE IF r.raised = "IntegrityError"
           THEN /\ last' = Log("update_selected_student", "Student ID already exists.")
                /\ db' = r.db
                /\ UNCHANGED <<tree, selected_student_db_id>>
           ELSE /\ db' = r.db
                /\ RefreshStudentList(r.db, search, fg)
                /\ clear_form
                /\ last' = Log("update_selected_student", "Student updated.")
    /\ UNCHANGED subjects
    /\ UNCHANGED_conn /\ UNCHANGED_grade

delete_selected_student(index, search, fg) ==
    /\ Idle
    /\ Picked(index)
    /\ LET db_id == tree[index].db_id
           D == delete_student_from_db(db, db_id)
       IN  /\ db' = D
           /\ RefreshStudentList(D, search, fg)
           /\ clear_form
           /\ last' = Log("delete_selected_student", "Deleted")
    /\ UNCHANGED subjects
    /\ UNCHANGED_conn /\ UNCHANGED_grade

SubjectIdsOf(subject_list) == {subject_list[i][1] : i \in 1..Len(subject_list)}

save_marks_for_selected(entries, search, fg) ==
    /\ Idle
    /\ selected_student_db_id # None
    /\ LET r == save_marks_loop(db, selected_student_db_id, subjects, entries)
       IN  /\ r.db.seq.marks <= MaxMarkRows
           /\ db' = r.db
           /\ last' = [Log("save_marks_for_selected", r.msg) EXCEPT !.calls = r.calls]
           /\ IF r.msg = "Marks updated."
              THEN RefreshStudentList(r.db, search, fg)
              ELSE UNCHANGED tree
    /\ UNCHANGED <<subjects, selected_student_db_id>>
    /\ UNCHANGED_conn /\ UNCHANGED_grade

mark_present_today(index, today, search, fg) ==
    /\ Idle
    /\ Picked(index)
    /\ LET db_id == tree[index].db_id
           D == add_attendance_to_db(db, db_id, isoformat(today), TRUE)
       IN  /\ D.seq.attendance <= MaxAttendanceRows
           /\ db' = D
           /\ RefreshStudentList(D, search, fg)
           /\ last' = Log("mark_present_today", "Marked")
    /\ UNCHANGED <<subjects, selected_student_db_id>>
    /\ UNCHANGED_conn /\ UNCHANGED_grade

\* the user closes the message box and control is back in root.mainloop()
mainloop ==
    /\ pc = AtIdle
    /\ last # NoDialog
    /\ last' = NoDialog
    /\ UNCHANGED <<db, subjects, selected_student_db_id, tree>>
    /\ UNCHANGED_conn /\ UNCHANGED_grade

----------------------------------------------------------------------------
(* The application *)

\* main(): init_db on a fresh file, then StudentGradingApp.__init__
Init ==
    /\ db = EmptyDb
    /\ view = NoConn
    /\ pc = AtIdle
    /\ subjects = list_subjects_from_db(EmptyDb)
    /\ tree = refresh_student_list(EmptyDb, <<>>, "All")
    /\ selected_student_db_id = None
    /\ last = NoDialog
    /\ grade_in = <<>>
    /\ grade_out = calculate_total_percentage_gpa_grade(<<>>)

SubjectHandlers ==
    \/ \E n \in SubjectInputs, v \in ViewInputs : add_subject(n, v[1], v[2])
    \/ \E i \in 1..MaxSubjectRows, n \in SubjectInputs, v \in ViewInputs :
          edit_subject(i, n, v[1], v[2])

StudentHandlers ==
    \/ \E v \in ViewInputs : search_students(v[1], v[2])
    \/ \E i \in 1..MaxStudentRows : on_student_select(i)
    \/ clear_form_button
    \/ \E sid \in CodeInputs, n \in NameInputs, k \in KlassInputs, t \in Timestamps,
          v \in ViewInputs : add_student(sid, n, k, t, v[1], v[2])
    \/ \E i \in 1..MaxStudentRows, sid \in UpdateCodeInputs, n \in NameInputs,
          k \in KlassInputs, v \in ViewInputs :
          update_selected_student(i, sid, n, k, v[1], v[2])
    \/ \E e \in [SubjectIdsOf(subjects) -> MarkInputs],
          v \in ViewInputs : save_marks_for_selected(e, v[1], v[2])
    \/ \E i \in 1..MaxStudentRows, d \in Dates, v \in ViewInputs :
          mark_present_today(i, d, v[1], v[2])

DeleteHandlers ==
    \/ \E i \in 1..MaxSubjectRows, v \in ViewInputs : delete_subject(i, v[1], v[2])
    \/ \E i \in 1..MaxStudentRows, v \in ViewInputs :
          delete_selected_student(i, v[1], v[2])

Next == SubjectHandlers \/ StudentHandlers \/ DeleteHandlers \/ mainloop

Spec == Init /\ [][Next]_vars

----------------------------------------------------------------------------
(* The two cascade deletes, one statement at a time, and a crash of the     *)
(* process between a statement and the commit.                              *)

At(at, id) == [at |-> at, id |-> id]

\* one c.execute of an open connection
Execute(V) ==
    LET c == execute([disk |-> db, view |-> view], V)
    IN  /\ db' = c.disk
        /\ view' = c.view

UNCHANGED_ui == UNCHANGED <<subjects, selected_student_db_id, tree>>

\* delete_selected_student up to line 120 of delete_student_from_db
delete_student_begin(index) ==
    /\ Idle
    /\ Picked(index)
    /\ LET db_id == tree[index].db_id
           c == execute(get_conn(db), sql_delete_student(db, db_id))
       IN  /\ db' = c.disk
           /\ view' = c.view
           /\ pc' = At("delete_student_marks", db_id)
    /\ last' = NoDialog
    /\ UNCHANGED_ui /\ UNCHANGED_grade

\* line 121
delete_student_marks ==
    /\ pc.at = "delete_student_marks"
    /\ Execute(sql_delete_marks_of_student(view, pc.id))
    /\ pc' = At("delete_student_attendance", pc.id)
    /\ UNCHANGED last /\ UNCHANGED_ui /\ UNCHANGED_grade

\* line 122
delete_student_attendance ==
    /\ pc.at = "delete_student_attendance"
    /\ Execute(sql_delete_attendance_of_student(view, pc.id))
    /\ pc' = At("delete_student_commit", pc.id)
    /\ UNCHANGED last /\ UNCHANGED_ui /\ UNCHANGED_grade

\* line 123, and the rest of delete_selected_student
delete_student_commit(search, fg) ==
    /\ pc.at = "delete_student_commit"
    /\ LET c == commit([disk |-> db, view |-> view])
       IN  /\ db' = c.disk
           /\ RefreshStudentList(c.disk, search, fg)
    /\ view' = NoConn
    /\ pc' = AtIdle
    /\ clear_form
    /\ last' = Log("delete_selected_student", "Deleted")
    /\ UNCHANGED subjects /\ UNCHANGED_grade

\* delete_subject up to line 551
delete_subject_begin(index) ==
    /\ Idle
    /\ index \in 1..Len(subjects)
    /\ LET subj_id == subjects[index][1]
           c == execute(get_conn(db), sql_delete_subject(db, subj_id))
       IN  /\ db' = c.disk
           /\ view' = c.view
           /\ pc' = At("delete_subject_marks", subj_id)
    /\ last' = NoDialog
    /\ UNCHANGED_ui /\ UNCHANGED_grade

\* line 552
delete_subject_marks ==
    /\ pc.at = "delete_subject_marks"
    /\ Execute(sql_delete_marks_of_subject(view, pc.id))
    /\ pc' = At("delete_subject_commit", pc.id)
    /\ UNCHANGED last /\ UNCHANGED_ui /\ UNCHANGED_grade

\* line 553, and the rest of delete_subject
delete_subject_commit(search, fg) ==
    /\ pc.at = "delete_subject_commit"
    /\ LET c == commit([disk |-> db, view |-> view])
       IN  /\ db' = c.disk
           /\ RefreshSubjects(c.disk)
           /\ RefreshStudentList(c.disk, search, fg)
    /\ view' = NoConn
    /\ pc' = AtIdle
    /\ last' = Log("delete_subject", "Deleted")
    /\ UNCHANGED selected_student_db_id /\ UNCHANGED_grade

\* the process dies inside a delete and the application is started again:
\* the file keeps what was committed, main() builds the window anew (`last`
\* records the restart until the event loop runs)
crash ==
    /\ InDelete
    /\ LET D == crash_recover([disk |-> db, view |-> view])
       IN  /\ db' = D
           /\ subjects' = list_subjects_from_db(D)
           /\ tree' = refresh_student_list(D, <<>>, "All")
    /\ view' = NoConn
    /\ pc' = AtIdle
    /\ selected_student_db_id' = None
    /\ last' = Log("crash", "")
    /\ UNCHANGED_grade

Build ==
    \/ \E n \in SubjectInputs, v \in ViewInputs : add_subject(n, v[1], v[2])
    \/ \E i \in 1..MaxStudentRows : on_student_select(i)
    \/ \E sid \in CodeInputs, n \in NameInputs, k \in KlassInputs, t \in Timestamps,
          v \in ViewInputs : add_student(sid, n, k, t, v[1], v[2])
    \/ \E e \in [SubjectIdsOf(subjects) -> MarkInputs],
          v \in ViewInputs : save_marks_for_selected(e, v[1], v[2])
    \/ \E i \in 1..MaxStudentRows, d \in Dates, v \in ViewInputs :
          mark_present_today(i, d, v[1], v[2])

DeleteStudentSteps ==
    \/ \E i \in 1..MaxStudentRows : delete_student_begin(i)
    \/ delete_student_marks
    \/ delete_student_attendance
    \/ \E v \in ViewInputs : delete_student_commit(v[1], v[2])

DeleteSubjectSteps ==
    \/ \E i \in 1..MaxSubjectRows : delete_subject_begin(i)
    \/ delete_subject_marks
    \/ \E v \in ViewInputs : delete_subject_commit(v[1], v[2])

NextCrash == Build \/ DeleteStudentSteps \/ DeleteSubjectSteps \/ crash \/ mainloop

SpecCrash == Init /\ [][NextCrash]_vars

----------------------------------------------------------------------------
(* A second instance of the application on the same students_dark.db: its   *)
(* Delete Selected removes a student that this instance still shows.        *)

other_instance_delete_student(db_id) ==
    /\ Idle
    /\ \E s \in db.students : s.id = db_id
    /\ db' = delete_student_from_db(db, db_id)
    /\ last' = NoDialog
    /\ UNCHANGED_ui /\ UNCHANGED_conn /\ UNCHANGED_grade

NextShared ==
    \/ \E i \in 1..MaxStudentRows : on_student_select(i)
    \/ \E sid \in CodeInputs, n \in NameInputs, k \in KlassInputs, t \in Timestamps,
          v \in ViewInputs : add_student(sid, n, k, t, v[1], v[2])
    \/ \E i \in 1..MaxStudentRows, sid \in UpdateCodeInputs, n \in NameInputs,
          k \in KlassInputs, v \in ViewInputs :
          update_selected_student(i, sid, n, k, v[1], v[2])
    \/ \E n \in SubjectInputs, v \in ViewInputs : add_subject(n, v[1], v[2])
    \/ \E e \in [SubjectIdsOf(subjects) -> MarkInputs],
          v \in ViewInputs : save_marks_for_selected(e, v[1], v[2])
    \/ \E i \in 1..MaxStudentRows : other_instance_delete_student(i)
    \/ mainloop

SpecShared == Init /\ [][NextShared]_vars

----------------------------------------------------------------------------
(* The grading function on its own: every marks list of numbers 0..100     *)
(* up to MaxMarksLen entries.                                               *)

GradeValues == {Num(v) : v \in 0..100}
GradeInputs(n) == [1..n -> {<<T_M, m>> : m \in GradeValues}]

InitGrade ==
    /\ db = EmptyDb
    /\ view = NoConn
    /\ pc = At("call", 0)
    /\ subjects = <<>>
    /\ tree = <<>>
    /\ selected_student_db_id = None
    /\ last = NoDialog
    /\ \E n \in 0..MaxMarksLen : grade_in \in GradeInputs(n)
    /\ grade_out = grade_row(0, 0, 0, 0, "", FALSE)

grade_call ==
    /\ pc = At("call", 0)
    /\ grade_out' = calculate_total_percentage_gpa_grade(grade_in)
    /\ pc' = At("return", 0)
    /\ UNCHANGED <<db, view, subjects, tree, selected_student_db_id, last, grade_in>>

SpecGrade == InitGrade /\ [][grade_call]_vars

\* The search box: students of several names, and queries with letters of
\* either case and with the two characters LIKE reads as wildcards
SearchNames == {T_a, T_Ab, T_B}
SearchQueries == {<<>>, T_a, T_A, T_b, T_sp_A, T_underscore, T_percent}

NextSearch ==
    \/ \E sid \in CodeInputs, n \in SearchNames, k \in KlassInputs, t \in Timestamps,
          v \in ViewInputs : add_student(sid, n, k, t, v[1], v[2])
    \/ \E q \in SearchQueries : search_students(q, "All")
    \/ mainloop

SpecSearch == Init /\ [][NextSearch]_vars

\* The attendance functions on their own: add_attendance_to_db called with
\* either value of `present` for the students Add Student has stored
add_attendance_call(student_db_id, date, present) ==
    /\ Idle
    /\ \E s \in db.students : s.id = student_db_id
    /\ LET D == add_attendance_to_db(db, student_db_id, isoformat(date), present)
       IN  /\ D.seq.attendance <= MaxAttendanceCalls
           /\ db' = D
    /\ last' = NoDialog
    /\ UNCHANGED_ui /\ UNCHANGED_conn /\ UNCHANGED_grade

NextAttendance ==
    \/ \E sid \in CodeInputs, n \in NameInputs, k \in KlassInputs, t \in Timestamps,
          v \in ViewInputs : add_student(sid, n, k, t, v[1], v[2])
    \/ \E i \in 1..MaxStudentRows, d \in Dates, present \in BOOLEAN :
          add_attendance_call(i, d, present)
    \/ mainloop

SpecAttendance == Init /\ [][NextAttendance]_vars

\* The grading function on marks that are numbers or texts, as the marks
\* column (REAL affinity keeps a text that is no number) can hand them over
CoerceValues ==
    {Num(v) : v \in {0, 45, 90, 100}}
        \cup {Txt(t) : t \in {<<>>, T_abc, T_nan, T_sp_100}}
CoerceInputs(n) == [1..n -> {<<T_M, m>> : m \in CoerceValues}]

InitCoerce ==
    /\ db = EmptyDb
    /\ view = NoConn
    /\ pc = At("call", 0)
    /\ subjects = <<>>
    /\ tree = <<>>
    /\ selected_student_db_id = None
    /\ last = NoDialog
    /\ \E n \in 0..MaxMarksLen : grade_in \in CoerceInputs(n)
    /\ grade_out = grade_row(0, 0, 0, 0, "", FALSE)

SpecCoerce == InitCoerce /\ [][grade_call]_vars

----------------------------------------------------------------------------
(* Properties *)

StudentIds(D) == {s.id : s \in D.students}
SubjectIds(D) == {s.id : s \in D.subjects}
MarksOf(D, student_db_id, subject_db_id) ==
    {m \in D.marks : m.student_db_id = student_db_id /\ m.subject_db_id = subject_db_id}
AllViews == ViewInputs
Shown(op, msg) == last.op = op /\ last.msg = msg

\* C1: in every reachable state every stored Mark references a student and a
\* subject that exist; the student Save Marks would write for
\* (selected_student_db_id) is a stored student and the subject list it
\* iterates (self.subjects) holds exactly the stored subjects, so Save Marks
\* never writes a Mark for a deleted student or subject.
C1_MarksReferenceExisting ==
    /\ \A m \in db.marks : /\ m.student_db_id \in StudentIds(db)
                           /\ m.subject_db_id \in SubjectIds(db)
    /\ selected_student_db_id # None => selected_student_db_id \in StudentIds(db)
    /\ SubjectIdsOf(subjects) = SubjectIds(db)

\* Save Marks has just written, after a student and a subject were deleted
C1_Witness ==
    /\ Shown("save_marks_for_selected", "Marks updated.")
    /\ db.marks # {}
    /\ Cardinality(db.students) < db.seq.students
    /\ Cardinality(db.subjects) < db.seq.subjects

\* C2: a step that removes student s removes exactly s, the Marks of s and
\* the AttendanceRecords of s, and leaves every other row of the four tables
\* as it was; a step that creates a student gives it an id above every id
\* handed out before, and no Mark and no AttendanceRecord references it.
C2_DeleteStudentCascades ==
    [][ /\ \A s \in db.students :
              s.id \notin StudentIds(db') =>
                 /\ db'.students = db.students \ {s}
                 /\ db'.subjects = db.subjects
                 /\ db'.marks = {m \in db.marks : m.student_db_id # s.id}
                 /\ db'.attendance = {a \in db.attendance : a.student_db_id # s.id}
                 /\ \A m \in db'.marks : m.student_db_id # s.id
                 /\ \A a \in db'.attendance : a.student_db_id # s.id
        /\ \A s \in db'.students :
              s.id \notin StudentIds(db) =>
                 /\ s.id > db.seq.students
                 /\ \A t \in db.students : t.id < s.id
                 /\ \A m \in db.marks \cup db'.marks : m.student_db_id # s.id
                 /\ \A a \in db.attendance \cup db'.attendance : a.student_db_id # s.id
                 /\ get_marks_for_student_from_db(db', s.id) = <<>>
      ]_vars

\* a student that had a Mark and an AttendanceRecord has just been deleted,
\* another student and the subject of the Mark are still there
C2_Witness ==
    /\ Shown("delete_selected_student", "Deleted")
    /\ db.seq.marks > 0 /\ db.marks = {}
    /\ db.seq.attendance > 0 /\ db.attendance = {}
    /\ db.students # {}
    /\ db.subjects # {} /\ Cardinality(db.subjects) = db.seq.subjects

\* the subjects Save Marks called set_mark_in_db for, and the value of the call
Written(calls) == {calls[i][1] : i \in 1..Len(calls)}
ValueOf(calls, subj_id) ==
    calls[CHOOSE i \in 1..Len(calls) : calls[i][1] = subj_id][2]

\* C3: the store never holds two Marks for one (student, subject) pair; a
\* Save Marks step leaves, for every set_mark_in_db call it made, exactly one
\* Mark of the pair, with the value of the call, in the row the pair had if
\* it had one; the number of Mark rows grows by the number of written pairs
\* that had none; the Marks of every other pair stay as they were; and no
\* step of another handler changes the value of a Mark or adds one.
C3_OneMarkPerPair ==
    /\ [](\A m1 \in db.marks : \A m2 \in db.marks :
             (m1.student_db_id = m2.student_db_id /\ m1.subject_db_id = m2.subject_db_id)
                => m1 = m2)
    /\ [][ /\ last'.op = "save_marks_for_selected" =>
                /\ \A subj_id \in Written(last'.calls) :
                      LET old == MarksOf(db, selected_student_db_id, subj_id)
                          new == MarksOf(db', selected_student_db_id, subj_id)
                      IN  /\ Cardinality(new) = 1
                          /\ \A m \in new : m.marks = ValueOf(last'.calls, subj_id)
                          /\ old # {} => {m.id : m \in new} = {m.id : m \in old}
                /\ Cardinality(db'.marks) = Cardinality(db.marks) + Cardinality(
                      {subj_id \in Written(last'.calls) :
                          MarksOf(db, selected_student_db_id, subj_id) = {}})
                /\ \A m \in db.marks \cup db'.marks :
                      (m.student_db_id # selected_student_db_id
                       \/ m.subject_db_id \notin Written(last'.calls))
                         => (m \in db.marks /\ m \in db'.marks)
           /\ last'.op # "save_marks_for_selected" => db'.marks \subseteq db.marks
         ]_vars

\* Save Marks stopped at an invalid second entry after it had overwritten the
\* only Mark, 0, with 100: no row was added, and the table on display still
\* shows the total 0
C3_Witness ==
    /\ Shown("save_marks_for_selected", "Invalid marks")
    /\ db.seq.marks = 1
    /\ \E m \in db.marks :
          /\ m.marks = 100
          /\ \E i \in 1..Len(tree) : /\ tree[i].db_id = m.student_db_id
                                     /\ tree[i].grade = "F"
                                     /\ tree[i].total = 0

\* C4: every stored Mark value v satisfies 0 <= v <= 100.
C4_MarkInRange == \A m \in db.marks : m.marks >= 0 /\ m.marks <= 100

\* Save Marks has just refused an entry for its range, and a boundary value
\* is stored
C4_Witness ==
    /\ Shown("save_marks_for_selected", "Marks must be 0-100")
    /\ \E m \in db.marks : m.marks = 100

\* C5: an Add Student step whose name is empty after trimming, or whose code
\* (a code was typed: it is not empty after trimming) is the code of a stored
\* student, shows its error dialog and leaves the four tables and the
\* AUTOINCREMENT counters unchanged.
C5_AddStudentRejected ==
    [][ \A sid \in CodeInputs, n \in NameInputs :
           ( /\ last'.op = "add_student"
             /\ \E k \in KlassInputs, t \in Timestamps, v \in AllViews :
                   add_student(sid, n, k, t, v[1], v[2])
             /\ \/ strip(n) = <<>>
                \/ /\ strip(sid) # <<>>
                   /\ \E s \in db.students : s.student_id = strip(sid) )
           => /\ db' = db
              /\ last' \in {Log("add_student", "Name is required."),
                            Log("add_student", "Student ID already exists.")}
      ]_vars

\* Add Student has just been refused for its code: the only stored code is
\* the typed "A", so no generated code was involved
C5_Witness ==
    /\ Shown("add_student", "Student ID already exists.")
    /\ db.students # {}
    /\ \A s \in db.students : s.student_id = T_A

\* C6: no two stored students have the same non-empty code and no two stored
\* subjects have the same name; an Add Subject step for a name that is stored
\* reports "added" and leaves the subjects and marks tables unchanged.
C6_UniqueCodesAndNames ==
    /\ [](/\ \A s1 \in db.students : \A s2 \in db.students :
               (s1.student_id = s2.student_id /\ s1.student_id # <<>>) => s1 = s2
          /\ \A s1 \in db.subjects : \A s2 \in db.subjects :
               s1.name = s2.name => s1 = s2)
    /\ [][ \A n \in SubjectInputs :
              ( /\ last'.op = "add_subject"
                /\ \E v \in AllViews : add_subject(n, v[1], v[2])
                /\ \E s \in db.subjects : s.name = strip(n) )
              => /\ db'.subjects = db.subjects
                 /\ db'.marks = db.marks
                 /\ last' = Log("add_subject", "Added")
         ]_vars

\* two students with different non-empty codes and two subjects are stored,
\* and Add Subject has just run
C6_Witness ==
    /\ Shown("add_subject", "Added")
    /\ Cardinality(db.subjects) = 2
    /\ Cardinality({s.student_id : s \in db.students} \ {<<>>}) = 2

\* C7: a rename of subject a to the name of another stored subject b shows
\* the duplicate-name error and leaves the database unchanged.
C7_RenameToTakenNameFails ==
    [][ \A i \in 1..MaxSubjectRows, n \in SubjectInputs :
           ( /\ last'.op = "edit_subject"
             /\ \E v \in AllViews : edit_subject(i, n, v[1], v[2])
             /\ \E b \in db.subjects : b.id # subjects[i][1] /\ b.name = n )
           => /\ db' = db
              /\ last' = Log("edit_subject", "Subject name already exists.")
      ]_vars

\* a rename has just been refused while Marks of two subjects are stored
C7_Witness ==
    /\ Shown("edit_subject", "Subject name already exists.")
    /\ Cardinality(db.subjects) = 2
    /\ Cardinality({m.subject_db_id : m \in db.marks}) = 2

\* C8: an Update Selected step for a row whose student is no longer stored
\* does not report success.
C8_UpdateOfMissingStudentFails ==
    [][ \A i \in 1..MaxStudentRows, sid \in UpdateCodeInputs, n \in NameInputs :
           ( /\ last'.op = "update_selected_student"
             /\ \E k \in KlassInputs, v \in AllViews :
                   update_selected_student(i, sid, n, k, v[1], v[2])
             /\ tree[i].db_id \notin StudentIds(db) )
           => last' # Log("update_selected_student", "Student updated.")
      ]_vars

ParentStored(D, at, id) ==
    IF at \in {"delete_student_marks", "delete_student_attendance", "delete_student_commit"}
    THEN id \in StudentIds(D)
    ELSE id \in SubjectIds(D)

\* C9: with the deletes run statement by statement and a crash possible
\* before the commit, the file never holds a Mark or an AttendanceRecord whose
\* student, or a Mark whose subject, is gone; inside a delete the file still
\* holds the parent row; and the file changes only by a commit that removes
\* the parent with all its dependents, never by a crash.
C9_CascadeAllOrNothing ==
    /\ [](/\ \A m \in db.marks : /\ m.student_db_id \in StudentIds(db)
                                 /\ m.subject_db_id \in SubjectIds(db)
          /\ \A a \in db.attendance : a.student_db_id \in StudentIds(db)
          /\ InDelete => ParentStored(db, pc.at, pc.id))
    /\ [][ InDelete =>
             \/ db' = db
             \/ /\ pc.at = "delete_student_commit"
                /\ db'.students = {s \in db.students : s.id # pc.id}
                /\ db'.marks = {m \in db.marks : m.student_db_id # pc.id}
                /\ db'.attendance = {a \in db.attendance : a.student_db_id # pc.id}
                /\ db'.subjects = db.subjects
             \/ /\ pc.at = "delete_subject_commit"
                /\ db'.subjects = {s \in db.subjects : s.id # pc.id}
                /\ db'.marks = {m \in db.marks : m.subject_db_id # pc.id}
                /\ db'.attendance = db.attendance
                /\ db'.students = db.students
         ]_vars

\* the process has just died inside a delete: the file still holds Marks and
\* AttendanceRecords, and no row was ever removed
C9_Witness ==
    /\ Shown("crash", "")
    /\ db.marks # {} /\ db.attendance # {}
    /\ Cardinality(db.students) = db.seq.students
    /\ Cardinality(db.subjects) = db.seq.subjects

RECURSIVE SumTo(_, _)
SumTo(marks_list, n) == IF n = 0 THEN 0 ELSE SumTo(marks_list, n - 1) + marks_list[n][2].val

\* C10: for a non-empty list of marks in 0..100 the result has total = the
\* sum of the values, max_total = 100 * their number, 0 <= percentage <= 100
\* and the GPA and grade of the one row of the table the percentage falls in;
\* for the empty list it is (0, 0, 0, 0, "N/A").
C10_GradeTable ==
    pc = At("return", 0) =>
       LET r == grade_out
           p == r.percentage
       IN  IF Len(grade_in) = 0
           THEN r = grade_row(0, 0, 0, 0, "N/A", FALSE)
           ELSE /\ r.total = SumTo(grade_in, Len(grade_in))
                /\ r.max_total = 100 * Len(grade_in)
                /\ p >= 0 /\ p <= 10000
                /\ p >= 9000 => (r.gpa = 40 /\ r.grade = "A+")
                /\ (p >= 8000 /\ p < 9000) => (r.gpa = 37 /\ r.grade = "A")
                /\ (p >= 7000 /\ p < 8000) => (r.gpa = 30 /\ r.grade = "B")
                /\ (p >= 6000 /\ p < 7000) => (r.gpa = 20 /\ r.grade = "C")
                /\ (p >= 5000 /\ p < 6000) => (r.gpa = 10 /\ r.grade = "D")
                /\ p < 5000 => (r.gpa = 0 /\ r.grade = "F")

\* aggregate([("Math", 90), ("Science", 80)]) == (170, 200, 85.0, 3.7, "A")
C10_Witness ==
    /\ pc = At("return", 0)
    /\ grade_in = <<<<T_M, Num(90)>>, <<T_M, Num(80)>>>>
    /\ grade_out = grade_row(170, 200, 8500, 37, "A", FALSE)

\* a mark float() raises on, a mark that is the NaN, and the number of a mark
\* that is neither
Unparseable(m) == m.kind = "text" /\ float(m.text).kind = "ValueError"
IsNaN(m) == m.kind = "text" /\ float(m.text).kind = "nan"
NumberOf(m) == IF m.kind = "num" THEN m.val ELSE float(m.text).val

RECURSIVE SumParsed(_, _)
SumParsed(marks_list, n) ==
    IF n = 0 THEN 0
    ELSE SumParsed(marks_list, n - 1)
            + (IF Unparseable(marks_list[n][2]) THEN 0 ELSE NumberOf(marks_list[n][2]))

\* C11: the call returns for every list of numbers and texts; when no mark
\* is the NaN, total is the sum of the marks that parse (a mark that does not
\* parse adds 0) and max_total is 100 for every mark, parsed or not; the
\* list of one unparseable mark gives (0, 100, 0.0, 0.0, "F").
C11_UnparseableCountsZero ==
    (pc = At("return", 0) /\ \A i \in 1..Len(grade_in) : ~IsNaN(grade_in[i][2])) =>
       /\ grade_out.total = SumParsed(grade_in, Len(grade_in))
       /\ grade_out.max_total = 100 * Len(grade_in)
       /\ ~grade_out.nan
       /\ (Len(grade_in) = 1 /\ Unparseable(grade_in[1][2]))
             => grade_out = grade_row(0, 100, 0, 0, "F", FALSE)
       /\ (Len(grade_in) > 0 /\ \A i \in 1..Len(grade_in) : Unparseable(grade_in[i][2]))
             => grade_out.grade = "F"

\* aggregate([("Math", "abc")]) == (0, 100, 0.0, 0.0, "F")
C11_Witness ==
    /\ pc = At("return", 0)
    /\ grade_in = <<<<T_M, Txt(T_abc)>>>>
    /\ grade_out = grade_row(0, 100, 0, 0, "F", FALSE)

AttendanceOf(D, student_db_id) == {a \in D.attendance : a.student_db_id = student_db_id}
Abs(x) == IF x < 0 THEN 0 - x ELSE x

\* C12: for every student id s, the attendance percent of s is 0 when s has
\* no record, and otherwise the hundredth nearest to 100 * p / t, for t the
\* number of records of s, records of one date each counted, and p the number
\* of them with present = 1; and a call that adds a record of another
\* student leaves the percent of s as it was.
C12_AttendancePercent ==
    /\ [](\A s \in 1..MaxStudentRows :
             LET rows == AttendanceOf(db, s)
                 t == Cardinality(rows)
                 p == Cardinality({a \in rows : a.present = 1})
                 r == get_attendance_percent_from_db(db, s)
             IN  IF t = 0 THEN r = 0
                 ELSE /\ 2 * Abs(r * t - 10000 * p) <= t
                      /\ r >= 0 /\ r <= 10000)
    /\ [][ \A s \in 1..MaxStudentRows :
              AttendanceOf(db', s) = AttendanceOf(db, s)
                 => get_attendance_percent_from_db(db', s)
                       = get_attendance_percent_from_db(db, s) ]_vars

\* a student has three records of one date, one of them present, and the
\* percent 33.33, while another student has a record
C12_Witness ==
    \E s \in StudentIds(db) :
       /\ Cardinality(AttendanceOf(db, s)) = 3
       /\ Cardinality({a.date : a \in AttendanceOf(db, s)}) = 1
       /\ get_attendance_percent_from_db(db, s) = 3333
       /\ \E o \in StudentIds(db) \ {s} : AttendanceOf(db, o) # {}

\* q is a substring of name, letters compared without regard to case
Contains(q, name) ==
    \E i \in 1..(Len(name) - Len(q) + 1) :
       \A j \in 1..Len(q) : lower(name[i + j - 1]) = lower(q[j])

Ascending(rows) ==
    \A i \in 1..(Len(rows) - 1) : ~TextLess(rows[i + 1].name, rows[i].name)

\* C13: a Search step for the query q leaves in the table exactly the stored
\* students whose name contains q (trimmed) without regard to case, every
\* one once, in ascending order of name; for the empty query these are all
\* the students.
C13_FindIsSubstringFilter ==
    [][ \A q \in SearchQueries :
           search_students(q, "All") =>
              /\ {tree'[i].db_id : i \in 1..Len(tree')}
                    = {s.id : s \in {x \in db.students : Contains(strip(q), x.name)}}
              /\ Len(tree') = Cardinality({tree'[i].db_id : i \in 1..Len(tree')})
              /\ Ascending(tree')
      ]_vars

\* C14: a step leaves a Mark of every (student, subject) pair that had one,
\* unless the step removes the student or the subject of the pair.
C14_MarkRemovedOnlyByCascade ==
    [][ \A m \in db.marks :
           (m.student_db_id \in StudentIds(db') /\ m.subject_db_id \in SubjectIds(db'))
              => MarksOf(db', m.student_db_id, m.subject_db_id) # {} ]_vars

\* Save Marks has just run with every entry blank for a student that has
\* Marks: it made no call and the Marks are still there
C14_Witness ==
    /\ Shown("save_marks_for_selected", "Marks updated.")
    /\ last.calls = <<>>
    /\ \E m \in db.marks : m.student_db_id = selected_student_db_id

\* C15: an Add Student step with a name that is not empty after trimming and
\* an empty Student ID field reports success and stores exactly one new
\* student, whose code no student stored before has.
C15_AutoCodeAlwaysAdds ==
    [][ \A n \in NameInputs :
           ( /\ last'.op = "add_student"
             /\ strip(n) # <<>>
             /\ \E k \in KlassInputs, t \in Timestamps, v \in AllViews :
                   add_student(<<>>, n, k, t, v[1], v[2]) )
           => /\ last' = Log("add_student", "Added")
              /\ Cardinality(db'.students \ db.students) = 1
              /\ db.students \subseteq db'.students
              /\ \A s \in db'.students \ db.students :
                    \A o \in db.students : o.student_id # s.student_id
      ]_vars

\* C16: a Save Marks step that ends with an error dialog leaves the marks
\* table as it was.
C16_SaveMarksAllOrNothing ==
    [][ ( /\ last'.op = "save_marks_for_selected"
          /\ last'.msg \in {"Invalid marks", "Marks must be 0-100"} )
        => db'.marks = db.marks ]_vars

====
